---- MODULE Spec2Model ----
(***************************************************************************)
(* Conversation-state management of text2sql: the SessionService           *)
(* (services/session_service.py) on top of the RedisService adapter        *)
(* (services/redis_service.py).                                            *)
(*                                                                         *)
(* The store is Redis: every command is applied atomically by the server.  *)
(* A service method is a coroutine; between two awaited store commands     *)
(* other callers' commands may be applied.  One action of this model is    *)
(* "the server applies the awaited command, the coroutine receives the     *)
(* answer and runs on to the point where it issues its next command", so   *)
(* the arguments of a command (timestamps included) are computed one       *)
(* action before the command is applied.                                   *)
(*                                                                         *)
(* A ChatMessage is stored as the JSON text of its dump; the timestamp is  *)
(* taken to be rendered as an ISO-8601 string, which is what the sort key  *)
(* of get_history (x.get("timestamp", "")) reads back.  ISO-8601 strings   *)
(* of one format compare as the instants they denote, so timestamps are    *)
(* clock readings here and compared as numbers.                            *)
(***************************************************************************)
EXTENDS Integers, Sequences, FiniteSets, TLC

(***************************************************************************)
(* Bounds of the model.                                                    *)
(***************************************************************************)
MaxTime == 1            \* clock readings are 0..MaxTime
MaxCalls == 3           \* writing calls in the history scenario
SmallMaxHistory == 3    \* max_history_messages of the small configuration
SmallKeepRecent == 2    \* keep_recent_messages of the small configuration
InitTurns == 3          \* turns a session holds at most when a scenario starts
MaxCompactCalls == 2    \* writing calls in the compaction scenario
MaxConcurrentCalls == 3 \* writing calls in the concurrent scenario
TriggerSystemTurns == 1 \* system appends in the threshold scenario
MaxQueriesOver == 1     \* turns past the threshold at which queries still start
MaxLimit == 2           \* limit arguments of get_history are 0..MaxLimit
MaxSessionCalls == 3    \* writing calls in the two-session scenario
MaxOrderCalls == 2      \* writing calls in the ordering scenario
MaxFaultCalls == 2      \* calls in the failure scenario
MaxMessages == 2        \* messages handed to the summarization agent at most
MaxSummarizerCalls == 2 \* compactions in the summarizer scenario
SummarizerInitTurns == 2 \* turns a session holds at most when that scenario starts
SmallTTL == 2           \* session_ttl of the sweep scenario, in seconds
MaxDialogueCalls == 5   \* queries start while fewer calls than this were counted
MaxRaceCalls == 2       \* appends in the scenario of the sweep and a writer
MaxRaceQueries == 2     \* queries start while fewer calls than this were counted
MaxSweepCalls == 2      \* writing calls in the sweep scenario
FaultInitTurns == 2     \* turns a session holds at most when that scenario starts

(***************************************************************************)
(* Program constants.                                                      *)
(***************************************************************************)
DefaultMaxHistoryMessages == 20   \* AppSettings.max_history_messages
DefaultKeepRecentMessages == 10   \* SessionService.__init__ keep_recent_messages
DefaultSessionTTL == 86400        \* AppSettings.session_ttl

Procs == {"p1", "p2"}
SessionIds == {"s1", "s2"}
Roles == {"human", "ai", "system"}
Summaries == {"S1", "S2"}
KeyNames == {"messages", "info", "system", "summary"}

\* Optional values: None is the empty sequence, Some(v) the one-element one.
None == <<>>
Some(v) == <<v>>
IsNone(o) == o = <<>>
Val(o) == o[1]

VARIABLES
    messages,   \* session:<id>:messages  the ordered list of human/ai turns
    system,     \* session:<id>:system    the set of system turns
    info,       \* session:<id>:info      the session metadata (optional)
    summary,    \* session:<id>:summary   the stored summary (optional)
    ttl,        \* per key: -2 no such key, -1 no expiry, else seconds left
    now,        \* the last reading of datetime.utcnow()
    settings,   \* AppSettings and the SessionService constructor arguments
    harness,    \* the callers: who calls, what, with which arguments, how often
    ncalls,     \* writing calls started so far; numbers the turns built
    pc,         \* per caller: the command awaited
    call,       \* per caller: arguments and locals of the running call
    log         \* per session: the turns handed to the store, in order

store == <<messages, system, info, summary, ttl>>
vars == <<messages, system, info, summary, ttl, now, settings, harness, ncalls, pc, call, log>>


(***************************************************************************)
(* Values.                                                                 *)
(***************************************************************************)
\* datetime.utcnow(): the clock does not go back, and it need not have
\* advanced since it was last read.  now is the last reading.
UtcNow == now..harness.max_time

\* ChatMessage(role, content, metadata={}).model_dump(): the timestamp is the
\* clock reading at construction.  id numbers the turn for the properties
\* only: it is not part of the stored text.
ChatMessage(role, content, ts, id) ==
    [role |-> role, content |-> content, timestamp |-> ts, id |-> id]

\* The JSON text RedisService writes for a turn (json.dumps of the dump): two
\* turns are the same set member exactly when these texts are equal.
json_dumps(m) == [role |-> m.role, content |-> m.content, timestamp |-> m.timestamp]

\* json.loads on a text written by set(): the texts that are themselves valid
\* JSON come back as the JSON value, not as the text (RedisService.get).
JsonTexts == {"42"}
QuotedS1 == "\"S1\""
json_loads(text) ==
    IF text \in JsonTexts THEN [type |-> "int", text |-> text]
    ELSE IF text = QuotedS1 THEN [type |-> "str", text |-> "S1"]
    ELSE [type |-> "str", text |-> text]

SummaryPrefix == "Previous conversation summary: "
SummaryContent(s) == SummaryPrefix \o s

\* (mutant) the new session already counts a message
NewSessionInfo_counting(sid, ts) ==
    [session_id |-> sid, created_at |-> ts, last_activity |-> ts,
     message_count |-> 1, is_active |-> TRUE]

\* session_info of create_session
NewSessionInfo(sid, ts) ==
    [session_id |-> sid, created_at |-> ts, last_activity |-> ts,
     message_count |-> 0, is_active |-> TRUE]

\* dict.get(key, default) on a stored session_info
DictGet(d, key, default) == IF key \in DOMAIN d THEN d[key] ELSE default

\* d[key] = v on a dict: the key is added when absent
DictSet(d, key, v) ==
    [k \in DOMAIN d \cup {key} |-> IF k = key THEN v ELSE d[k]]

EmptyDict == [k \in {} |-> 0]

(***************************************************************************)
(* RedisService: what each command leaves in the store and what it         *)
(* answers.  Positions of a Redis list are 0-based, negative ones count    *)
(* from the end.                                                           *)
(***************************************************************************)
ListStart(len, i) == IF i < 0 THEN (IF len + i < 0 THEN 0 ELSE len + i) ELSE i
ListStop(len, i) == IF i < 0 THEN len + i ELSE (IF i >= len THEN len - 1 ELSE i)

\* LRANGE key start end
lrange(list, start, end) ==
    SubSeq(list, ListStart(Len(list), start) + 1, ListStop(Len(list), end) + 1)

\* LTRIM key start end: the list that remains
ltrim(list, start, end) ==
    SubSeq(list, ListStart(Len(list), start) + 1, ListStop(Len(list), end) + 1)

\* LLEN key
llen(list) == Len(list)

\* (mutant) the value is pushed at the head of the list
rpush_head(list, m) == <<m>> \o list

\* RPUSH key value
rpush(list, m) == Append(list, m)

\* (mutant) the set is overwritten with the new member
sadd_replacing(set, m) == {m}

\* SADD key value: a member with the same text is already there
sadd(set, m) ==
    IF \E x \in set : json_dumps(x) = json_dumps(m) THEN set ELSE set \cup {m}

\* EXISTS key, for the optional info value
exists(o) == ~IsNone(o)

\* GET key with a default
redis_get(o, default) == IF IsNone(o) THEN default ELSE Val(o)

\* The TTL a key has after a write created or kept it, and after EXPIRE.
NoKey == 0 - 2
NoExpiry == 0 - 1
TtlAfterPush(old) == IF old = NoKey THEN NoExpiry ELSE old
TtlAfterExpire(old, time) == IF old = NoKey THEN NoKey ELSE time
TtlOfList(list, old) == IF Len(list) = 0 THEN NoKey ELSE old

(***************************************************************************)
(* get_history: the sort of line 128 is Python's stable sort on the key    *)
(* (role != "system", timestamp).                                          *)
(***************************************************************************)
KeyLess(a, b) ==
    \/ a.role = "system" /\ b.role # "system"
    \/ (a.role = "system") = (b.role = "system") /\ a.timestamp < b.timestamp

\* x inserted behind every element that does not sort after it
RECURSIVE InsertSorted(_, _)
InsertSorted(sorted, x) ==
    IF sorted = <<>> THEN <<x>>
    ELSE IF KeyLess(x, sorted[Len(sorted)])
         THEN Append(InsertSorted(SubSeq(sorted, 1, Len(sorted) - 1), x),
                     sorted[Len(sorted)])
         ELSE Append(sorted, x)

RECURSIVE StableSort(_)
StableSort(seq) ==
    IF seq = <<>> THEN <<>>
    ELSE InsertSorted(StableSort(SubSeq(seq, 1, Len(seq) - 1)), seq[Len(seq)])

\* The orders in which SMEMBERS may answer the members of a set
RECURSIVE Orders(_)
Orders(set) ==
    IF set = {} THEN {<<>>}
    ELSE UNION {{<<x>> \o rest : rest \in Orders(set \ {x})} : x \in set}

\* (mutant) the limit takes the most recent turns
HistoryRange_recent(list, limit) ==
    IF ~IsNone(limit) /\ Val(limit) # 0
    THEN lrange(list, 0 - Val(limit), 0 - 1)
    ELSE lrange(list, 0, 0 - 1)

\* lrange(session_key, 0, limit - 1 if limit else -1); limit is optional
HistoryRange(list, limit) ==
    lrange(list, 0, IF ~IsNone(limit) /\ Val(limit) # 0 THEN Val(limit) - 1 ELSE 0 - 1)

\* What get_history returns when SMEMBERS answered system_messages
get_history_result(system_messages, list, limit) ==
    StableSort(system_messages \o HistoryRange(list, limit))


(***************************************************************************)
(* Callers.                                                                *)
(***************************************************************************)
\* The four keys of one session as the store holds them
Snapshot(sid) ==
    [messages |-> messages[sid], system |-> system[sid],
     info |-> info[sid], summary |-> summary[sid]]

IdleCall ==
    [op |-> "none", sid |-> "none", role |-> "none", content |-> "none",
     id |-> 0, keep_arg |-> None, keep_recent |-> None, limit |-> None, include_system |-> TRUE,
     message |-> None, session_info |-> None, system_messages |-> <<>>,
     history |-> <<>>, existing_summary |-> None, new_summary |-> None,
     ret |-> None, before |-> None, removed |-> {}, refreshed |-> {},
     sql_query |-> None, error |-> FALSE, raised |-> FALSE, failed |-> FALSE,
     keys |-> {}, active |-> {}, expired_count |-> 0, status |-> 0,
     agent_error |-> None, llm |-> "none", llm_invoked |-> FALSE,
     llm_error |-> "none", prompt |-> "none"]

\* The call has set the expiry of a key (kept for the properties)
Refreshed(c, key) == [c EXCEPT !.refreshed = @ \cup {key}]

\* A caller may start a call; callers that take turns wait for the running
\* call to return.
CanCall(p, op) ==
    /\ p \in harness.callers
    /\ pc[p] = "idle"
    /\ harness.concurrent \/ \A q \in Procs : pc[q] = "idle"

\* The same for a call that writes: only so many are made
CanStart(p, op) ==
    /\ CanCall(p, op)
    /\ ncalls < harness.budget

\* What a caller that takes turns with the others found in the store when
\* it made the call (kept for the properties)
Before(sid) == IF harness.concurrent THEN None ELSE Some(Snapshot(sid))

Begin(p, op, sid) ==
    [IdleCall EXCEPT !.op = op, !.sid = sid, !.id = ncalls + 1,
                     !.before = Before(sid)]

\* A call that only reads
BeginRead(p, op, sid) ==
    [IdleCall EXCEPT !.op = op, !.sid = sid, !.before = Before(sid)]

Goto(p, label, c) ==
    /\ pc' = [pc EXCEPT ![p] = label]
    /\ call' = [call EXCEPT ![p] = c]

SetTtl(sid, key, value) == ttl' = [ttl EXCEPT ![sid][key] = value]

\* Where a call goes on when the add_message it made has returned
AfterAddMessage(c) ==
    CASE c.op = "add_message" -> "done"
      [] c.op = "arun" ->
            IF c.role = "system" THEN "llm.ainvoke"
            ELSE IF c.role = "human" THEN "save_history.ai"
            ELSE "done"
      [] OTHER -> "ltrim"

(***************************************************************************)
(* create_session (lines 40-55)                                            *)
(***************************************************************************)
create_session_start(p, sid) ==
    /\ CanStart(p, "create_session")
    /\ \E t \in UtcNow :
        /\ now' = t
        /\ Goto(p, "create_session.set",
                [Begin(p, "create_session", sid)
                    EXCEPT !.session_info = Some(NewSessionInfo(sid, t))])
    /\ ncalls' = ncalls + 1
    /\ UNCHANGED <<store, settings, harness, log>>

\* The SET of line 53 is applied; inside add_message (line 79) the caller
\* goes on to build the ChatMessage of line 81.
create_session_set(p) ==
    /\ pc[p] = "create_session.set"
    /\ LET c == Refreshed(call[p], "info") IN
        /\ info' = [info EXCEPT ![c.sid] = c.session_info]
        /\ SetTtl(c.sid, "info", settings.session_ttl)
        /\ IF c.op = "create_session"
           THEN /\ Goto(p, "done", [c EXCEPT !.ret = Some(TRUE)])
                /\ UNCHANGED now
           ELSE \E t \in UtcNow :
                /\ now' = t
                /\ Goto(p, "add_message.push",
                        [c EXCEPT !.message =
                            Some(ChatMessage(c.role, c.content, t, c.id))])
    /\ UNCHANGED <<messages, system, summary, settings, harness, ncalls, log>>

(***************************************************************************)
(* add_message (lines 67-101) and _update_session_activity (253-261)       *)
(***************************************************************************)
add_message_start(p, sid, role, content) ==
    /\ CanStart(p, "add_message")
    /\ Goto(p, "add_message.exists",
            [Begin(p, "add_message", sid) EXCEPT !.role = role, !.content = content])
    /\ ncalls' = ncalls + 1
    /\ UNCHANGED <<store, now, settings, harness, log>>

\* session_exists (line 78): EXISTS on the info key
add_message_exists(p) ==
    /\ pc[p] = "add_message.exists"
    /\ \E t \in UtcNow :
        LET c == call[p] IN
        /\ now' = t
        /\ IF exists(info[c.sid])
           THEN Goto(p, "add_message.push",
                     [c EXCEPT !.message =
                         Some(ChatMessage(c.role, c.content, t, c.id))])
           ELSE Goto(p, "create_session.set",
                     [c EXCEPT !.session_info = Some(NewSessionInfo(c.sid, t))])
    /\ UNCHANGED <<store, settings, harness, ncalls, log>>

\* SADD on the system key (line 90) or RPUSH on the messages key (line 95)
add_message_push(p) ==
    /\ pc[p] = "add_message.push"
    /\ LET c == call[p]
           m == Val(c.message) IN
        /\ IF c.role = "system"
           THEN /\ system' = [system EXCEPT ![c.sid] = sadd(@, m)]
                /\ SetTtl(c.sid, "system", TtlAfterPush(ttl[c.sid]["system"]))
                /\ UNCHANGED messages
           ELSE /\ messages' = [messages EXCEPT ![c.sid] = rpush(@, m)]
                /\ SetTtl(c.sid, "messages", TtlAfterPush(ttl[c.sid]["messages"]))
                /\ UNCHANGED system
        /\ log' = [log EXCEPT ![c.sid] = Append(@, m)]
        /\ Goto(p, "add_message.expire", c)
    /\ UNCHANGED <<info, summary, now, settings, harness, ncalls>>

\* EXPIRE on the key just written (lines 91, 96)
add_message_expire(p) ==
    /\ pc[p] = "add_message.expire"
    /\ LET c == call[p]
           key == IF c.role = "system" THEN "system" ELSE "messages" IN
        /\ SetTtl(c.sid, key, TtlAfterExpire(ttl[c.sid][key], settings.session_ttl))
        /\ Goto(p, "activity.get", Refreshed(c, key))
    /\ UNCHANGED <<messages, system, info, summary, now, settings, harness, ncalls, log>>

\* GET info with the default {} (line 256); lines 258-259 build the new info
update_session_activity_get(p) ==
    /\ pc[p] = "activity.get"
    /\ \E t \in UtcNow :
        LET c == call[p]
            session_info == redis_get(info[c.sid], EmptyDict)
            updated == DictSet(DictSet(session_info, "last_activity", t),
                               "message_count",
                               DictGet(session_info, "message_count", 0) + 1) IN
        /\ now' = t
        /\ Goto(p, "activity.set", [c EXCEPT !.session_info = Some(updated)])
    /\ UNCHANGED <<store, settings, harness, ncalls, log>>

\* SET info (line 261); add_message returns True (line 101)
update_session_activity_set(p) ==
    /\ pc[p] = "activity.set"
    /\ LET c == Refreshed(call[p], "info") IN
        /\ info' = [info EXCEPT ![c.sid] = c.session_info]
        /\ SetTtl(c.sid, "info", settings.session_ttl)
        /\ Goto(p, AfterAddMessage(c),
                IF c.op = "add_message" THEN [c EXCEPT !.ret = Some(TRUE)] ELSE c)
    /\ UNCHANGED <<messages, system, summary, now, settings, harness, ncalls, log>>


(***************************************************************************)
(* get_session_info (lines 57-60) behind GET /sessions/{id}/info           *)
(* (core/app.py lines 316-325)                                             *)
(***************************************************************************)
\* (mutant) the endpoint answers 200 whatever it got
InfoStatus_found(o) == 200

\* The endpoint's answer: "if not info" raises the 404
InfoStatus(o) == IF IsNone(o) \/ DOMAIN Val(o) = {} THEN 404 ELSE 200

get_session_info_start(p, sid) ==
    /\ CanCall(p, "get_session_info")
    /\ Goto(p, "get_session_info.get", BeginRead(p, "get_session_info", sid))
    /\ UNCHANGED <<store, now, settings, harness, ncalls, log>>

\* GET on the info key (line 60): the stored dict or None
get_session_info_get(p) ==
    /\ pc[p] = "get_session_info.get"
    /\ LET c == call[p]
           session_info == info[c.sid] IN
        Goto(p, "done", [c EXCEPT !.session_info = session_info,
                                  !.status = InfoStatus(session_info)])
    /\ UNCHANGED <<store, now, settings, harness, ncalls, log>>

(***************************************************************************)
(* get_history (lines 103-130)                                             *)
(***************************************************************************)
get_history_start(p, sid, limit, include_system) ==
    /\ CanCall(p, "get_history")
    /\ Goto(p, IF include_system THEN "get_history.smembers" ELSE "get_history.lrange",
            [BeginRead(p, "get_history", sid)
                EXCEPT !.limit = limit, !.include_system = include_system])
    /\ UNCHANGED <<store, now, settings, harness, ncalls, log>>

\* SMEMBERS on the system key (line 117): the members in any order
get_history_smembers(p) ==
    /\ pc[p] = "get_history.smembers"
    /\ \E order \in Orders(system[call[p].sid]) :
        Goto(p, "get_history.lrange", [call[p] EXCEPT !.system_messages = order])
    /\ UNCHANGED <<store, now, settings, harness, ncalls, log>>

\* LRANGE on the messages key (line 122), then the sort of line 128.  Inside
\* auto_summarize_and_trim (line 159) the caller goes on to read the summary,
\* inside the SQL agent (sql_agent.py line 80) to generate the SQL.
get_history_lrange(p) ==
    /\ pc[p] = "get_history.lrange"
    /\ LET c == call[p]
           result == get_history_result(c.system_messages, messages[c.sid], c.limit) IN
        IF c.op = "get_history"
        THEN Goto(p, "done", [c EXCEPT !.history = result])
        ELSE IF c.op = "arun"
        THEN Goto(p, "generate_sql", [c EXCEPT !.history = result])
        ELSE Goto(p, "get_conversation_summary.get", [c EXCEPT !.history = result])
    /\ UNCHANGED <<store, now, settings, harness, ncalls, log>>

(***************************************************************************)
(* get_message_count, should_summarize (lines 132-140)                     *)
(***************************************************************************)
get_message_count(sid) == llen(messages[sid])

\* (mutant) the threshold itself does not trigger
should_summarize_above(sid) == get_message_count(sid) > settings.max_history_messages

should_summarize(sid) == get_message_count(sid) >= settings.max_history_messages

should_summarize_start(p, sid) ==
    /\ CanCall(p, "should_summarize")
    /\ Goto(p, "get_message_count.llen", BeginRead(p, "should_summarize", sid))
    /\ UNCHANGED <<store, now, settings, harness, ncalls, log>>

should_summarize_llen(p) ==
    /\ pc[p] = "get_message_count.llen"
    /\ LET c == call[p] IN
        Goto(p, "done", [c EXCEPT !.ret = Some(should_summarize(c.sid))])
    /\ UNCHANGED <<store, now, settings, harness, ncalls, log>>

(***************************************************************************)
(* auto_summarize_and_trim (lines 142-190), summarize_and_trim (192-211)   *)
(***************************************************************************)
\* keep_recent = keep_recent or self.keep_recent_messages (lines 153, 200)
KeepRecent(keep_recent) ==
    IF IsNone(keep_recent) \/ Val(keep_recent) = 0
    THEN settings.keep_recent_messages
    ELSE Val(keep_recent)

auto_summarize_and_trim_start(p, sid, keep_recent) ==
    /\ CanStart(p, "auto_summarize_and_trim")
    /\ IF ~settings.summarization_agent
       THEN Goto(p, "done",
                 [Begin(p, "auto_summarize_and_trim", sid) EXCEPT !.ret = Some(FALSE)])
       ELSE Goto(p, "get_history.lrange",
                 [Begin(p, "auto_summarize_and_trim", sid)
                     EXCEPT !.keep_arg = keep_recent,
                            !.keep_recent = Some(KeepRecent(keep_recent)),
                            !.include_system = FALSE])
    /\ ncalls' = ncalls + 1
    /\ UNCHANGED <<store, now, settings, harness, log>>

\* GET on the summary key (lines 162, 216)
get_conversation_summary_get(p) ==
    /\ pc[p] = "get_conversation_summary.get"
    /\ LET c == call[p]
           text == summary[c.sid] IN
        Goto(p, IF c.op = "get_conversation_summary" THEN "done"
                ELSE "summarize_conversation",
             [c EXCEPT !.existing_summary =
                 IF IsNone(text) THEN None ELSE Some(json_loads(Val(text)))])
    /\ UNCHANGED <<store, now, settings, harness, ncalls, log>>

\* get_conversation_summary (lines 213-216) called by a client
get_conversation_summary_start(p, sid) ==
    /\ CanCall(p, "get_conversation_summary")
    /\ Goto(p, "get_conversation_summary.get",
            BeginRead(p, "get_conversation_summary", sid))
    /\ UNCHANGED <<store, now, settings, harness, ncalls, log>>

\* What summarize_conversation may answer for these messages: no summary when
\* there is no human/ai turn (summarization_agent.py lines 56-63) or the LLM
\* call fails (127-129); success carries a non-empty text (142-144, 227).
SummarizerAnswers(history) ==
    IF \E i \in 1..Len(history) : history[i].role \in {"human", "ai"}
    THEN {None} \cup {Some(s) : s \in Summaries}
    ELSE {None}

\* (mutant) a failed summarization goes on to the trim
summarize_conversation_trimming(p) ==
    /\ pc[p] = "summarize_conversation"
    /\ \E answer \in SummarizerAnswers(call[p].history) :
        IF IsNone(answer)
        THEN Goto(p, "ltrim", call[p])
        ELSE Goto(p, "save_conversation_summary.set",
                  [call[p] EXCEPT !.new_summary = answer])
    /\ UNCHANGED <<store, now, settings, harness, ncalls, log>>

\* The summarizer answers (lines 165-173)
summarize_conversation(p) ==
    /\ pc[p] = "summarize_conversation"
    /\ \E answer \in SummarizerAnswers(call[p].history) :
        IF IsNone(answer)
        THEN Goto(p, "done", [call[p] EXCEPT !.ret = Some(FALSE)])
        ELSE Goto(p, "save_conversation_summary.set",
                  [call[p] EXCEPT !.new_summary = answer])
    /\ UNCHANGED <<store, now, settings, harness, ncalls, log>>

\* SET on the summary key (lines 176, 221); then add_message is entered with
\* the summary as a system turn (line 179)
save_conversation_summary_set(p) ==
    /\ pc[p] = "save_conversation_summary.set"
    /\ LET c == Refreshed(call[p], "summary") IN
        /\ summary' = [summary EXCEPT ![c.sid] = c.new_summary]
        /\ SetTtl(c.sid, "summary", settings.session_ttl)
        /\ IF c.op = "save_conversation_summary"
           THEN Goto(p, "done", [c EXCEPT !.ret = Some(TRUE)])
           ELSE Goto(p, "add_message.exists",
                     [c EXCEPT !.role = "system",
                               !.content = SummaryContent(Val(c.new_summary))])
    /\ UNCHANGED <<messages, system, info, now, settings, harness, ncalls, log>>

\* save_conversation_summary (lines 218-222) called by a client
save_conversation_summary_start(p, sid, text) ==
    /\ CanStart(p, "save_conversation_summary")
    /\ Goto(p, "save_conversation_summary.set",
            [Begin(p, "save_conversation_summary", sid) EXCEPT !.new_summary = Some(text)])
    /\ ncalls' = ncalls + 1
    /\ UNCHANGED <<store, now, settings, harness, log>>

summarize_and_trim_start(p, sid, text, keep_recent) ==
    /\ CanStart(p, "summarize_and_trim")
    /\ Goto(p, "add_message.exists",
            [Begin(p, "summarize_and_trim", sid)
                EXCEPT !.keep_arg = keep_recent,
                       !.keep_recent = Some(KeepRecent(keep_recent)),
                       !.new_summary = Some(text),
                       !.role = "system",
                       !.content = SummaryContent(text)])
    /\ ncalls' = ncalls + 1
    /\ UNCHANGED <<store, now, settings, harness, log>>

\* The turns LTRIM takes out of a list
Removed(list, kept) == {list[i].id : i \in 1..Len(list)} \ {kept[i].id : i \in 1..Len(kept)}

RECURSIVE Without(_, _)
Without(seq, ids) ==
    IF seq = <<>> THEN <<>>
    ELSE IF seq[1].id \in ids THEN Without(Tail(seq), ids)
         ELSE <<seq[1]>> \o Without(Tail(seq), ids)

\* (mutant) the trim keeps the oldest turns: LTRIM 0 keep_recent-1
trim_ltrim_oldest(p) ==
    /\ pc[p] = "ltrim"
    /\ LET c == call[p]
           list == messages[c.sid]
           kept == ltrim(list, 0, Val(c.keep_recent) - 1) IN
        /\ messages' = [messages EXCEPT ![c.sid] = kept]
        /\ SetTtl(c.sid, "messages", TtlOfList(kept, ttl[c.sid]["messages"]))
        /\ log' = [log EXCEPT ![c.sid] = Without(@, Removed(list, kept))]
        /\ Goto(p, "done", [c EXCEPT !.ret = Some(TRUE),
                                      !.removed = Removed(list, kept)])
    /\ UNCHANGED <<system, info, summary, now, settings, harness, ncalls>>

\* LTRIM -keep_recent -1 on the messages key (lines 183, 209); returns True
trim_ltrim(p) ==
    /\ pc[p] = "ltrim"
    /\ LET c == call[p]
           list == messages[c.sid]
           kept == ltrim(list, 0 - Val(c.keep_recent), 0 - 1) IN
        /\ messages' = [messages EXCEPT ![c.sid] = kept]
        /\ SetTtl(c.sid, "messages", TtlOfList(kept, ttl[c.sid]["messages"]))
        /\ log' = [log EXCEPT ![c.sid] = Without(@, Removed(list, kept))]
        /\ Goto(p, "done", [c EXCEPT !.ret = Some(TRUE),
                                      !.removed = Removed(list, kept)])
    /\ UNCHANGED <<system, info, summary, now, settings, harness, ncalls>>

(***************************************************************************)
(* clear_session, delete_session (lines 224-238)                           *)
(***************************************************************************)
clear_session_start(p, sid) ==
    /\ CanStart(p, "clear_session")
    /\ Goto(p, "clear_session.delete", Begin(p, "clear_session", sid))
    /\ ncalls' = ncalls + 1
    /\ UNCHANGED <<store, now, settings, harness, log>>

delete_session_start(p, sid) ==
    /\ CanStart(p, "delete_session")
    /\ Goto(p, "clear_session.delete", Begin(p, "delete_session", sid))
    /\ ncalls' = ncalls + 1
    /\ UNCHANGED <<store, now, settings, harness, log>>

\* (mutant) the DEL leaves the metadata
ClearedKeys_keeping_info == {"messages", "system"}

\* The keys named in the DEL of line 232
ClearedKeys == {"messages", "info", "system"}

\* (mutant) the DEL removes the keys of every session
clear_session_delete_all(p) ==
    /\ pc[p] = "clear_session.delete"
    /\ messages' = [s \in SessionIds |-> <<>>]
    /\ info' = [s \in SessionIds |-> None]
    /\ system' = [s \in SessionIds |-> {}]
    /\ summary' = summary
    /\ ttl' = [s \in SessionIds |->
                  [k \in KeyNames |-> IF k \in ClearedKeys THEN NoKey ELSE ttl[s][k]]]
    /\ log' = [s \in SessionIds |-> <<>>]
    /\ Goto(p, "done", [call[p] EXCEPT !.ret = Some(TRUE)])
    /\ UNCHANGED <<now, settings, harness, ncalls>>

\* DEL (line 232); returns True
clear_session_delete(p) ==
    /\ pc[p] = "clear_session.delete"
    /\ LET c == call[p] IN
        /\ messages' = [messages EXCEPT ![c.sid] = IF "messages" \in ClearedKeys THEN <<>> ELSE @]
        /\ info' = [info EXCEPT ![c.sid] = IF "info" \in ClearedKeys THEN None ELSE @]
        /\ system' = [system EXCEPT ![c.sid] = IF "system" \in ClearedKeys THEN {} ELSE @]
        /\ summary' = [summary EXCEPT ![c.sid] = IF "summary" \in ClearedKeys THEN None ELSE @]
        /\ ttl' = [ttl EXCEPT ![c.sid] =
                      [k \in KeyNames |-> IF k \in ClearedKeys THEN NoKey ELSE @[k]]]
        /\ log' = [log EXCEPT ![c.sid] = <<>>]
        /\ IF c.op = "cleanup_expired_sessions"
           THEN Goto(p, IF c.keys = {} THEN "done" ELSE "cleanup.exists",
                     [c EXCEPT !.expired_count = @ + 1,
                               \* what this DEL found (kept for the properties)
                               !.before = Some(Snapshot(c.sid))])
           ELSE Goto(p, "done", [c EXCEPT !.ret = Some(TRUE)])
    /\ UNCHANGED <<now, settings, harness, ncalls>>

(***************************************************************************)
(* list_active_sessions (lines 240-251)                                    *)
(***************************************************************************)
\* (mutant) the scan looks for the turn lists: KEYS session:*:messages
InfoKeys_messages == {sid \in SessionIds : messages[sid] # <<>>}

\* KEYS session:*:info (line 243): the sessions whose info key exists
InfoKeys == {sid \in SessionIds : exists(info[sid])}

list_active_sessions_start(p) ==
    /\ CanCall(p, "list_active_sessions")
    /\ Goto(p, "list_active_sessions.keys",
            [IdleCall EXCEPT !.op = "list_active_sessions"])
    /\ UNCHANGED <<store, now, settings, harness, ncalls, log>>

\* The answer of KEYS; the loop of line 246 takes the keys in the order
\* the store gave them
list_active_sessions_keys(p) ==
    /\ pc[p] = "list_active_sessions.keys"
    /\ LET c == [call[p] EXCEPT !.keys = InfoKeys] IN
        Goto(p, IF c.keys = {} THEN "done" ELSE "list_active_sessions.get", c)
    /\ UNCHANGED <<store, now, settings, harness, ncalls, log>>

\* GET on the next key (line 247); lines 248-249 append the session_id of
\* an info that is active.  active holds the ids appended so far.
list_active_sessions_get(p) ==
    /\ pc[p] = "list_active_sessions.get"
    /\ \E sid \in call[p].keys :
        LET c == [call[p] EXCEPT !.keys = @ \ {sid}]
            session_info == info[sid]
            listed == /\ exists(session_info)
                      /\ DOMAIN Val(session_info) # {}
                      /\ DictGet(Val(session_info), "is_active", FALSE) IN
        IF listed /\ "session_id" \notin DOMAIN Val(session_info)
        THEN Goto(p, "done", [c EXCEPT !.raised = TRUE])
        ELSE Goto(p, IF c.keys = {} THEN "done" ELSE "list_active_sessions.get",
                  IF listed
                  THEN [c EXCEPT !.active = @ \cup {Val(session_info).session_id}]
                  ELSE c)
    /\ UNCHANGED <<store, now, settings, harness, ncalls, log>>

(***************************************************************************)
(* cleanup_expired_sessions (lines 263-279)                                *)
(***************************************************************************)
cleanup_expired_sessions_start(p) ==
    /\ CanCall(p, "cleanup_expired_sessions")
    /\ Goto(p, "cleanup.keys", [IdleCall EXCEPT !.op = "cleanup_expired_sessions"])
    /\ UNCHANGED <<store, now, settings, harness, ncalls, log>>

\* KEYS session:*:info (line 268)
cleanup_keys(p) ==
    /\ pc[p] = "cleanup.keys"
    /\ LET c == [call[p] EXCEPT !.keys = InfoKeys] IN
        Goto(p, IF c.keys = {} THEN "done" ELSE "cleanup.exists", c)
    /\ UNCHANGED <<store, now, settings, harness, ncalls, log>>

\* EXISTS on the next key (line 272): a key that is gone has clear_session
\* called for the session id cut out of it (lines 274-275)
cleanup_exists(p) ==
    /\ pc[p] = "cleanup.exists"
    /\ \E sid \in call[p].keys :
        LET c == [call[p] EXCEPT !.keys = @ \ {sid}] IN
        IF ~exists(info[sid])
        THEN Goto(p, "clear_session.delete", [c EXCEPT !.sid = sid])
        ELSE Goto(p, IF c.keys = {} THEN "done" ELSE "cleanup.exists", c)
    /\ UNCHANGED <<store, now, settings, harness, ncalls, log>>

(***************************************************************************)
(* The store's expiry: a key written with EX or given a time by EXPIRE is  *)
(* removed by the store when that many seconds have passed.                *)
(***************************************************************************)
\* The time left for a key after one more second
TtlAfterSecond(old) == IF old > 1 THEN old - 1 ELSE IF old = 1 THEN NoKey ELSE old

second_passes ==
    /\ \E sid \in SessionIds, k \in KeyNames : ttl[sid][k] > 0
    /\ ttl' = [sid \in SessionIds |-> [k \in KeyNames |-> TtlAfterSecond(ttl[sid][k])]]
    /\ messages' = [sid \in SessionIds |->
                       IF ttl[sid]["messages"] = 1 THEN <<>> ELSE messages[sid]]
    /\ system' = [sid \in SessionIds |->
                     IF ttl[sid]["system"] = 1 THEN {} ELSE system[sid]]
    /\ info' = [sid \in SessionIds |->
                   IF ttl[sid]["info"] = 1 THEN None ELSE info[sid]]
    /\ summary' = [sid \in SessionIds |->
                      IF ttl[sid]["summary"] = 1 THEN None ELSE summary[sid]]
    /\ UNCHANGED <<now, settings, harness, ncalls, pc, call, log>>

(***************************************************************************)
(* SQLAgent.arun (agents/sql_agent.py): the query path, as far as it uses  *)
(* the SessionService.  The graph is load_history -> generate_sql ->       *)
(* execute_sql -> save_history.                                            *)
(***************************************************************************)
Question == "Q"
InitialSystemPrompt == "P"
SqlQueries == {"A"}

\* arun enters _load_history, which awaits get_history(session_id) (line 80)
arun_start(p, sid) ==
    /\ CanStart(p, "arun")
    /\ Goto(p, "get_history.smembers", Begin(p, "arun", sid))
    /\ ncalls' = ncalls + 1
    /\ UNCHANGED <<store, now, settings, harness, log>>

\* _generate_sql: without history the initial system prompt is appended to
\* the session (lines 110-121) before the LLM is asked
generate_sql(p) ==
    /\ pc[p] = "generate_sql"
    /\ LET c == call[p] IN
        IF c.history = <<>>
        THEN Goto(p, "add_message.exists",
                  [c EXCEPT !.role = "system", !.content = InitialSystemPrompt])
        ELSE Goto(p, "llm.ainvoke", c)
    /\ UNCHANGED <<store, now, settings, harness, ncalls, log>>

\* The LLM answers with a query or fails (lines 140-150); _execute_sql does
\* not touch the session; _save_history appends the question (line 191)
llm_ainvoke(p) ==
    /\ pc[p] = "llm.ainvoke"
    /\ \E answer \in {None} \cup {Some(q) : q \in SqlQueries} :
        Goto(p, "add_message.exists",
             [call[p] EXCEPT !.sql_query = answer, !.role = "human",
                             !.content = Question, !.id = ncalls + 1])
    /\ ncalls' = ncalls + 1
    /\ UNCHANGED <<store, now, settings, harness, log>>

\* (mutant) _save_history stores the question only
save_history_ai_skipping(p) ==
    /\ pc[p] = "save_history.ai"
    /\ Goto(p, "done", call[p])
    /\ UNCHANGED <<store, now, settings, harness, ncalls, log>>

\* _save_history appends the generated SQL when there is one (lines 196-199)
save_history_ai(p) ==
    /\ pc[p] = "save_history.ai"
    /\ LET c == call[p] IN
        IF IsNone(c.sql_query)
        THEN /\ Goto(p, "done", c)
             /\ UNCHANGED ncalls
        ELSE /\ Goto(p, "add_message.exists",
                     [c EXCEPT !.role = "ai", !.content = Val(c.sql_query),
                               !.id = ncalls + 1])
             /\ ncalls' = ncalls + 1
    /\ UNCHANGED <<store, now, settings, harness, log>>

(***************************************************************************)
(* SummarizationAgent (agents/summarization_agent.py): the graph is        *)
(* prepare_content -> generate_summary -> finalize_summary.  The LLM is    *)
(* the client LLMService built with settings.timeout (llm_service.py       *)
(* lines 46-52): a request that gets no answer raises when the timeout     *)
(* has passed.                                                             *)
(***************************************************************************)
NoConversationError == "No conversation messages to summarize"
GenerateErrorPrefix == "Failed to generate summary: "
NoSummaryError == "No summary was generated"
LLMErrors == {"LLM service unavailable"}
LLMTimeoutError == "Request timed out."

\* What the LLM may send back: a summary or blanks
LLMContents == {"S1", " "}

\* str.strip() on these
Strip(text) == IF text = " " THEN "" ELSE text

\* How the LLM behaves on one request
LLMBehaviours == {"answers", "fails", "silent"}

\* The lists of dicts callers hand to summarize_conversation
Message(role) == ChatMessage(role, "c", 0, 0)
MessageLists ==
    UNION {[1..n -> {Message(r) : r \in Roles}] : n \in 0..MaxMessages}

\* msg.get("role") in ["human", "ai"] (lines 55-58, 87-90)
ConversationMessages(msgs) ==
    SelectSeq(msgs, LAMBDA m : m.role \in {"human", "ai"})

\* summarize_conversation (lines 202-218) called with messages and an
\* existing summary: the initial state of the graph
summarize_conversation_start(p, msgs, existing) ==
    /\ CanCall(p, "summarize_conversation")
    /\ Goto(p, "prepare_content",
            [IdleCall EXCEPT !.op = "summarize_conversation",
                             !.history = msgs, !.existing_summary = existing])
    /\ UNCHANGED <<store, now, settings, harness, ncalls, log>>

\* The same from auto_summarize_and_trim (session_service.py lines 165-169)
summarize_conversation_enter(p) ==
    /\ pc[p] = "summarize_conversation"
    /\ Goto(p, "prepare_content",
            [call[p] EXCEPT !.new_summary = None, !.agent_error = None])
    /\ UNCHANGED <<store, now, settings, harness, ncalls, log>>

\* (mutant) system messages count as conversation
prepare_content_unfiltered(p) ==
    /\ pc[p] = "prepare_content"
    /\ LET c == call[p] IN
        Goto(p, "generate_summary",
             IF c.history = <<>>
             THEN [c EXCEPT !.agent_error = Some(NoConversationError)]
             ELSE c)
    /\ UNCHANGED <<store, now, settings, harness, ncalls, log>>

\* _prepare_content (lines 50-75)
prepare_content(p) ==
    /\ pc[p] = "prepare_content"
    /\ LET c == call[p] IN
        Goto(p, "generate_summary",
             IF ConversationMessages(c.history) = <<>>
             THEN [c EXCEPT !.agent_error = Some(NoConversationError)]
             ELSE c)
    /\ UNCHANGED <<store, now, settings, harness, ncalls, log>>

\* _generate_summary up to the LLM request (lines 77-118): nothing is done
\* when there is an error; the prompt depends on the existing summary
generate_summary(p) ==
    /\ pc[p] = "generate_summary"
    /\ LET c == call[p] IN
        IF ~IsNone(c.agent_error)
        THEN Goto(p, "finalize_summary", c)
        ELSE \E behaviour \in LLMBehaviours :
                Goto(p, "summary_llm.ainvoke",
                     [c EXCEPT !.llm = behaviour, !.llm_invoked = TRUE,
                               !.prompt = IF IsNone(c.existing_summary)
                                          THEN "initial" ELSE "progressive"])
    /\ UNCHANGED <<store, now, settings, harness, ncalls, log>>

\* The LLM answers: new_summary = response.content.strip() (line 119)
llm_answer(p) ==
    /\ pc[p] = "summary_llm.ainvoke"
    /\ call[p].llm = "answers"
    /\ \E content \in LLMContents :
        Goto(p, "finalize_summary",
             [call[p] EXCEPT !.new_summary = Some(Strip(content))])
    /\ UNCHANGED <<store, now, settings, harness, ncalls, log>>

\* (mutant) the exception of the LLM leaves summarize_conversation
llm_raise_propagating(p) ==
    /\ pc[p] = "summary_llm.ainvoke"
    /\ call[p].llm = "fails"
    /\ \E e \in LLMErrors :
        Goto(p, "done", [call[p] EXCEPT !.llm_error = e, !.raised = TRUE])
    /\ UNCHANGED <<store, now, settings, harness, ncalls, log>>

\* The LLM request raises; the except clause of lines 127-129 takes it
llm_raise(p) ==
    /\ pc[p] = "summary_llm.ainvoke"
    /\ call[p].llm = "fails"
    /\ \E e \in LLMErrors :
        Goto(p, "finalize_summary",
             [call[p] EXCEPT !.llm_error = e,
                             !.agent_error = Some(GenerateErrorPrefix \o e)])
    /\ UNCHANGED <<store, now, settings, harness, ncalls, log>>

\* (mutant) a client without a timeout: the request stays open
llm_timeout_never(p) ==
    /\ FALSE
    /\ UNCHANGED vars

\* The LLM does not answer: the client raises when settings.timeout has
\* passed (llm_service.py lines 50, 107-111); lines 127-129 take it
llm_timeout(p) ==
    /\ pc[p] = "summary_llm.ainvoke"
    /\ call[p].llm = "silent"
    /\ Goto(p, "finalize_summary",
            [call[p] EXCEPT !.llm_error = LLMTimeoutError,
                            !.agent_error = Some(GenerateErrorPrefix \o LLMTimeoutError)])
    /\ UNCHANGED <<store, now, settings, harness, ncalls, log>>

\* The result of summarize_conversation (lines 222-226)
Success(c) == ~IsNone(c.new_summary) /\ IsNone(c.agent_error)

\* (mutant) _finalize_summary accepts whatever summary there is
finalize_summary_unvalidated(p) ==
    /\ pc[p] = "finalize_summary"
    /\ LET final == call[p] IN
        IF final.op = "summarize_conversation"
        THEN Goto(p, "done", [final EXCEPT !.ret = Some(Success(final))])
        ELSE IF ~Success(final)
        THEN Goto(p, "done", [final EXCEPT !.ret = Some(FALSE)])
        ELSE Goto(p, "save_conversation_summary.set", final)
    /\ UNCHANGED <<store, now, settings, harness, ncalls, log>>

\* _finalize_summary (lines 133-163) and the return of the result (220-235);
\* auto_summarize_and_trim returns False without success and goes on to
\* store the summary with it (session_service.py lines 171-176)
finalize_summary(p) ==
    /\ pc[p] = "finalize_summary"
    /\ LET c == call[p]
           final == IF IsNone(c.agent_error)
                       /\ (IsNone(c.new_summary) \/ Val(c.new_summary) = "")
                    THEN [c EXCEPT !.agent_error = Some(NoSummaryError)]
                    ELSE c IN
        IF c.op = "summarize_conversation"
        THEN Goto(p, "done", [final EXCEPT !.ret = Some(Success(final))])
        ELSE IF ~Success(final)
        THEN Goto(p, "done", [final EXCEPT !.ret = Some(FALSE)])
        ELSE Goto(p, "save_conversation_summary.set", final)
    /\ UNCHANGED <<store, now, settings, harness, ncalls, log>>

(***************************************************************************)
(* Store failures.  RedisService (services/redis_service.py lines 56-164)  *)
(* catches nothing: a command the store does not answer raises in the      *)
(* coroutine that awaits it, and the command is not applied.               *)
(***************************************************************************)
\* The positions at which a call awaits a store command
StoreCommands ==
    {"create_session.set", "add_message.exists", "add_message.push",
     "add_message.expire", "activity.get", "activity.set",
     "get_history.smembers", "get_history.lrange", "get_message_count.llen",
     "get_conversation_summary.get", "save_conversation_summary.set", "ltrim",
     "clear_session.delete", "get_session_info.get",
     "list_active_sessions.keys", "list_active_sessions.get",
     "cleanup.keys", "cleanup.exists"}

\* The awaited command fails.  The exception leaves the SessionService
\* method unless the method is auto_summarize_and_trim, whose except clause
\* (lines 188-190) returns False.  Inside the SQL agent the node's except
\* clause takes it: _load_history (sql_agent.py lines 98-100) and
\* _generate_sql (148-150) set the error and the graph goes on, with no
\* messages loaded to _generate_sql, with no query to _save_history;
\* _save_history (201-202) logs it and arun returns.
store_failure(p) ==
    /\ harness.faults
    /\ pc[p] \in StoreCommands
    /\ LET c == [call[p] EXCEPT !.failed = TRUE] IN
        CASE c.op = "auto_summarize_and_trim" ->
                /\ Goto(p, "done", [c EXCEPT !.ret = Some(FALSE)])
                /\ UNCHANGED ncalls
          [] c.op = "arun" /\ pc[p] \in {"get_history.smembers", "get_history.lrange"} ->
                /\ Goto(p, "generate_sql", [c EXCEPT !.error = TRUE, !.history = <<>>])
                /\ UNCHANGED ncalls
          [] c.op = "arun" /\ c.role = "system"
                /\ pc[p] \notin {"get_history.smembers", "get_history.lrange"} ->
                /\ Goto(p, "add_message.exists",
                        [c EXCEPT !.error = TRUE, !.sql_query = None, !.role = "human",
                                  !.content = Question, !.id = ncalls + 1])
                /\ ncalls' = ncalls + 1
          [] c.op = "arun" /\ c.role \in {"human", "ai"}
                /\ pc[p] \notin {"get_history.smembers", "get_history.lrange"} ->
                /\ Goto(p, "done", c)
                /\ UNCHANGED ncalls
          [] OTHER ->
                /\ Goto(p, "done", [c EXCEPT !.raised = TRUE])
                /\ UNCHANGED ncalls
    /\ UNCHANGED <<store, now, settings, harness, log>>

(***************************************************************************)
(* The callers' returns                                                    *)
(***************************************************************************)
\* The caller has looked at the result
Return(p) ==
    /\ pc[p] = "done"
    /\ Goto(p, "idle", IdleCall)
    /\ UNCHANGED <<store, now, settings, harness, ncalls, log>>


(***************************************************************************)
(* Specifications                                                          *)
(***************************************************************************)
\* limit arguments: not given, 0 .. MaxLimit
Limits == {None} \cup {Some(n) : n \in 0..MaxLimit}

\* keep_recent arguments: not given, 0, 1, 2 and the threshold of the small
\* configuration
KeepArgs == {None, Some(0), Some(1), Some(2), Some(SmallMaxHistory)}

\* The turns callers append: a question, its SQL, two directives
Turns == {<<"human", "Q">>, <<"ai", "A">>, <<"system", "D1">>, <<"system", "D2">>}

\* A configuration with a low threshold
SmallSettings ==
    [session_ttl |-> DefaultSessionTTL,
     max_history_messages |-> SmallMaxHistory,
     keep_recent_messages |-> SmallKeepRecent,
     summarization_agent |-> TRUE]

\* The configuration the application starts with
DefaultSettings ==
    [session_ttl |-> DefaultSessionTTL,
     max_history_messages |-> DefaultMaxHistoryMessages,
     keep_recent_messages |-> DefaultKeepRecentMessages,
     summarization_agent |-> TRUE]

\* The i-th turn of a conversation: questions and answers alternate
Conversation(n) ==
    [i \in 1..n |-> IF i % 2 = 1 THEN ChatMessage("human", "Q", 0, i)
                    ELSE ChatMessage("ai", "A", 0, i)]

\* The store after the n turns of Conversation(n) were appended to session
\* sid of an empty store, one add_message after the other, the clock at 0
Conversed(sid, n) ==
    /\ messages = [s \in SessionIds |-> IF s = sid THEN Conversation(n) ELSE <<>>]
    /\ system = [s \in SessionIds |-> {}]
    /\ info = [s \in SessionIds |->
                 IF s = sid /\ n > 0
                 THEN Some([NewSessionInfo(sid, 0) EXCEPT !.message_count = n])
                 ELSE None]
    /\ summary = [s \in SessionIds |-> None]
    /\ ttl = [s \in SessionIds |-> [k \in KeyNames |->
                 IF s = sid /\ n > 0 /\ k \in {"messages", "info"}
                 THEN settings.session_ttl ELSE NoKey]]
    /\ log = [s \in SessionIds |-> IF s = sid THEN Conversation(n) ELSE <<>>]
    /\ now = 0
    /\ ncalls = n
    /\ pc = [p \in Procs |-> "idle"]
    /\ call = [p \in Procs |-> IdleCall]

\* One caller, one call after the other, on one session
Sequential(budget) ==
    [callers |-> {"p1"}, concurrent |-> FALSE, budget |-> budget,
     max_time |-> MaxTime, sessions |-> {"s1"}, turns |-> Turns, limits |-> Limits, includes |-> {TRUE},
     keeps |-> KeepArgs, texts |-> Summaries, faults |-> FALSE]

\* The steps of add_message
AddMessageStep(p) ==
    \/ add_message_exists(p)
    \/ create_session_set(p)
    \/ add_message_push(p)
    \/ add_message_expire(p)
    \/ update_session_activity_get(p)
    \/ update_session_activity_set(p)

(***************************************************************************)
(* The history scenario: sessions are created, appended to, read and       *)
(* deleted, starting from the empty store.                                 *)
(***************************************************************************)
Init ==
    /\ settings = SmallSettings
    /\ harness = Sequential(MaxCalls)
    /\ Conversed("s1", 0)

Next ==
    \/ \E p \in Procs, sid \in harness.sessions :
        \/ create_session_start(p, sid)
        \/ \E turn \in harness.turns : add_message_start(p, sid, turn[1], turn[2])
        \/ \E limit \in harness.limits, include_system \in harness.includes :
              get_history_start(p, sid, limit, include_system)
        \/ should_summarize_start(p, sid)
        \/ clear_session_start(p, sid)
        \/ delete_session_start(p, sid)
    \/ \E p \in Procs :
        \/ AddMessageStep(p)
        \/ get_history_smembers(p)
        \/ get_history_lrange(p)
        \/ should_summarize_llen(p)
        \/ clear_session_delete(p)
        \/ Return(p)

Spec == Init /\ [][Next]_vars

(***************************************************************************)
(* The compaction scenario: a session that holds a conversation is         *)
(* appended to, compacted and deleted, one call after the other.           *)
(***************************************************************************)
InitCompact ==
    /\ settings = SmallSettings
    /\ \E n \in 0..InitTurns :
        /\ harness = [Sequential(n + MaxCompactCalls)
                         EXCEPT !.turns = {<<"human", "Q">>, <<"system", "D1">>}]
        /\ Conversed("s1", n)

CompactStep(p) ==
    \/ get_history_lrange(p)
    \/ get_conversation_summary_get(p)
    \/ summarize_conversation(p)
    \/ save_conversation_summary_set(p)
    \/ trim_ltrim(p)

NextCompact ==
    \/ \E p \in Procs, sid \in harness.sessions :
        \/ \E turn \in harness.turns : add_message_start(p, sid, turn[1], turn[2])
        \/ \E keep_recent \in harness.keeps :
              auto_summarize_and_trim_start(p, sid, keep_recent)
        \/ \E text \in harness.texts, keep_recent \in harness.keeps :
              summarize_and_trim_start(p, sid, text, keep_recent)
        \/ clear_session_start(p, sid)
        \/ delete_session_start(p, sid)
        \/ get_session_info_start(p, sid)
    \/ \E p \in Procs :
        \/ AddMessageStep(p)
        \/ CompactStep(p)
        \/ clear_session_delete(p)
        \/ get_session_info_get(p)
        \/ Return(p)

SpecCompact == InitCompact /\ [][NextCompact]_vars

(***************************************************************************)
(* The concurrent scenario: two callers append to and compact one session  *)
(* that is new or holds a turn; their store commands interleave.           *)
(***************************************************************************)
InitConcurrent ==
    /\ settings = SmallSettings
    /\ \E n \in 0..1 :
        /\ harness = [callers |-> Procs, concurrent |-> TRUE,
                      budget |-> n + MaxConcurrentCalls, max_time |-> MaxTime,
                      sessions |-> {"s1"}, turns |-> {<<"human", "Q">>},
                      limits |-> {None}, includes |-> {TRUE},
                      keeps |-> {Some(1)}, texts |-> {"S1"}]
        /\ Conversed("s1", n)

NextConcurrent ==
    \/ \E p \in Procs, sid \in harness.sessions :
        \/ \E turn \in harness.turns : add_message_start(p, sid, turn[1], turn[2])
        \/ \E keep_recent \in harness.keeps :
              auto_summarize_and_trim_start(p, sid, keep_recent)
    \/ \E p \in Procs :
        \/ AddMessageStep(p)
        \/ CompactStep(p)
        \/ Return(p)

SpecConcurrent == InitConcurrent /\ [][NextConcurrent]_vars

(***************************************************************************)
(* The threshold scenario: the application's configuration; one caller     *)
(* appends questions and a directive to a new session and asks whether to  *)
(* summarize.  The clock stands still.                                     *)
(***************************************************************************)
CountIn(seq, roles) == Cardinality({i \in 1..Len(seq) : seq[i].role \in roles})

InitTrigger ==
    /\ settings = DefaultSettings
    /\ harness = [Sequential(DefaultMaxHistoryMessages + 1 + TriggerSystemTurns)
                     EXCEPT !.max_time = 0,
                            !.turns = {<<"human", "Q">>, <<"system", "D1">>}]
    /\ Conversed("s1", 0)

NextTrigger ==
    \/ \E p \in Procs, sid \in harness.sessions :
        \/ \E turn \in harness.turns :
              /\ turn[1] = "system" =>
                    CountIn(log[sid], {"system"}) < TriggerSystemTurns
              /\ turn[1] # "system" =>
                    CountIn(log[sid], {"human", "ai"})
                        <= DefaultMaxHistoryMessages
              /\ add_message_start(p, sid, turn[1], turn[2])
        \/ should_summarize_start(p, sid)
    \/ \E p \in Procs :
        \/ AddMessageStep(p)
        \/ should_summarize_llen(p)
        \/ Return(p)

SpecTrigger == InitTrigger /\ [][NextTrigger]_vars

(***************************************************************************)
(* The query scenario: one client sends questions on one session through   *)
(* the SQL agent, with the application's configuration.                    *)
(***************************************************************************)
InitQuery ==
    /\ settings = DefaultSettings
    /\ harness = [Sequential(3 * DefaultMaxHistoryMessages)
                     EXCEPT !.max_time = 0]
    /\ Conversed("s1", 0)

NextQuery ==
    \/ \E p \in Procs, sid \in harness.sessions :
        /\ Len(messages[sid]) < DefaultMaxHistoryMessages + MaxQueriesOver
        /\ arun_start(p, sid)
    \/ \E p \in Procs :
        \/ get_history_smembers(p)
        \/ get_history_lrange(p)
        \/ generate_sql(p)
        \/ llm_ainvoke(p)
        \/ save_history_ai(p)
        \/ AddMessageStep(p)
        \/ Return(p)

SpecQuery == InitQuery /\ [][NextQuery]_vars

(***************************************************************************)
(* The two-session scenario: one caller works on two sessions in turn,     *)
(* starting from the empty store.  The clock stands still.                 *)
(***************************************************************************)
InitSessions ==
    /\ settings = SmallSettings
    /\ harness = [Sequential(MaxSessionCalls)
                     EXCEPT !.sessions = SessionIds,
                            !.max_time = 0,
                            !.turns = {<<"human", "Q">>, <<"system", "D1">>},
                            !.limits = {None},
                            !.keeps = {Some(1)},
                            !.texts = {"S1"}]
    /\ Conversed("s1", 0)

NextSessions ==
    \/ \E p \in Procs, sid \in harness.sessions :
        \/ create_session_start(p, sid)
        \/ \E turn \in harness.turns : add_message_start(p, sid, turn[1], turn[2])
        \/ \E limit \in harness.limits, include_system \in harness.includes :
              get_history_start(p, sid, limit, include_system)
        \/ \E keep_recent \in harness.keeps :
              auto_summarize_and_trim_start(p, sid, keep_recent)
        \/ \E text \in harness.texts, keep_recent \in harness.keeps :
              summarize_and_trim_start(p, sid, text, keep_recent)
        \/ clear_session_start(p, sid)
        \/ delete_session_start(p, sid)
    \/ \E p \in Procs :
        \/ list_active_sessions_start(p)
        \/ list_active_sessions_keys(p)
        \/ list_active_sessions_get(p)
        \/ AddMessageStep(p)
        \/ get_history_smembers(p)
        \/ CompactStep(p)
        \/ clear_session_delete(p)
        \/ Return(p)

SpecSessions == InitSessions /\ [][NextSessions]_vars

(***************************************************************************)
(* The ordering scenario: the session is new or caller p1 has appended a   *)
(* question; p1 appends questions and reads the history while p2 appends   *)
(* answers and compacts the session; their store commands interleave.  The *)
(* content of a turn tells who appended it.                                *)
(***************************************************************************)
TurnOf(p) == IF p = "p1" THEN <<"human", "Q">> ELSE <<"ai", "A">>

InitOrder ==
    /\ settings = SmallSettings
    /\ \E n \in 0..1 :
        /\ harness = [callers |-> Procs, concurrent |-> TRUE,
                      budget |-> n + MaxOrderCalls, max_time |-> MaxTime,
                      sessions |-> {"s1"}, turns |-> {TurnOf(p) : p \in Procs},
                      limits |-> {None}, includes |-> {TRUE},
                      keeps |-> {Some(1)}, texts |-> {"S1"}]
        /\ Conversed("s1", n)

NextOrder ==
    \/ \E p \in Procs, sid \in harness.sessions :
        \/ add_message_start(p, sid, TurnOf(p)[1], TurnOf(p)[2])
        \/ /\ p = "p1"
           /\ \E limit \in harness.limits, include_system \in harness.includes :
                 get_history_start(p, sid, limit, include_system)
        \/ /\ p = "p2"
           /\ \E keep_recent \in harness.keeps :
                 auto_summarize_and_trim_start(p, sid, keep_recent)
    \/ \E p \in Procs :
        \/ AddMessageStep(p)
        \/ get_history_smembers(p)
        \/ CompactStep(p)
        \/ Return(p)

SpecOrder == InitOrder /\ [][NextOrder]_vars

(***************************************************************************)
(* The failure scenario: one caller appends to, compacts and queries a     *)
(* session while any store command may fail.  The clock stands still.      *)
(***************************************************************************)
InitFaults ==
    /\ settings = SmallSettings
    /\ \E n \in 0..FaultInitTurns :
        /\ harness = [Sequential(n + MaxFaultCalls)
                         EXCEPT !.max_time = 0,
                                !.turns = {<<"human", "Q">>},
                                !.keeps = {Some(1)},
                                !.faults = TRUE]
        /\ Conversed("s1", n)

NextFaults ==
    \/ \E p \in Procs, sid \in harness.sessions :
        \/ \E turn \in harness.turns : add_message_start(p, sid, turn[1], turn[2])
        \/ \E keep_recent \in harness.keeps :
              auto_summarize_and_trim_start(p, sid, keep_recent)
        \/ arun_start(p, sid)
    \/ \E p \in Procs :
        \/ AddMessageStep(p)
        \/ CompactStep(p)
        \/ get_history_smembers(p)
        \/ generate_sql(p)
        \/ llm_ainvoke(p)
        \/ save_history_ai(p)
        \/ store_failure(p)
        \/ Return(p)

SpecFaults == InitFaults /\ [][NextFaults]_vars

(***************************************************************************)
(* The summarizer scenario: one caller hands message lists to the          *)
(* summarization agent and compacts a session that is new or holds a       *)
(* conversation; the LLM answers, fails or stays silent.  The clock stands *)
(* still.  The event loop runs a coroutine that can go on, and the LLM     *)
(* client's timer fires: every step of a call that is enabled is taken.    *)
(***************************************************************************)
ExistingSummaries == {None, Some(json_loads("S1"))}

InitSummarizer ==
    /\ settings = SmallSettings
    /\ \E n \in 0..SummarizerInitTurns :
        /\ harness = [Sequential(n + MaxSummarizerCalls)
                         EXCEPT !.max_time = 0,
                                !.keeps = {Some(1)}]
        /\ Conversed("s1", n)

SummarizerStep(p) ==
    \/ get_history_lrange(p)
    \/ get_conversation_summary_get(p)
    \/ summarize_conversation_enter(p)
    \/ prepare_content(p)
    \/ generate_summary(p)
    \/ llm_answer(p)
    \/ llm_raise(p)
    \/ llm_timeout(p)
    \/ finalize_summary(p)
    \/ save_conversation_summary_set(p)
    \/ add_message_exists(p)
    \/ add_message_push(p)
    \/ add_message_expire(p)
    \/ update_session_activity_get(p)
    \/ update_session_activity_set(p)
    \/ trim_ltrim(p)

NextSummarizer ==
    \/ \E p \in Procs, sid \in harness.sessions, keep_recent \in harness.keeps :
          auto_summarize_and_trim_start(p, sid, keep_recent)
    \/ \E p \in Procs, msgs \in MessageLists, existing \in ExistingSummaries :
          summarize_conversation_start(p, msgs, existing)
    \/ \E p \in Procs :
        \/ SummarizerStep(p)
        \/ Return(p)

SpecSummarizer ==
    /\ InitSummarizer
    /\ [][NextSummarizer]_vars
    /\ \A p \in Procs : WF_vars(SummarizerStep(p))

(***************************************************************************)
(* The sweep scenario: a short session_ttl; one caller appends to a        *)
(* session, saves a summary for it while it exists and runs the sweep,     *)
(* one call after the other, while the seconds pass.  The scenario has no  *)
(* deletion: metadata that is gone has expired.                            *)
(***************************************************************************)
InitSweep ==
    /\ settings = [SmallSettings EXCEPT !.session_ttl = SmallTTL]
    /\ harness = [Sequential(MaxSweepCalls)
                     EXCEPT !.max_time = 0,
                            !.turns = {<<"human", "Q">>},
                            !.texts = {"S1", "42", QuotedS1}]
    /\ Conversed("s1", 0)

NextSweep ==
    \/ \E p \in Procs, sid \in harness.sessions :
        \/ \E turn \in harness.turns : add_message_start(p, sid, turn[1], turn[2])
        \/ /\ exists(info[sid])
           /\ \E text \in harness.texts : save_conversation_summary_start(p, sid, text)
        \/ get_conversation_summary_start(p, sid)
    \/ \E p \in Procs :
        \/ get_conversation_summary_get(p)
        \/ cleanup_expired_sessions_start(p)
        \/ cleanup_keys(p)
        \/ cleanup_exists(p)
        \/ clear_session_delete(p)
        \/ save_conversation_summary_set(p)
        \/ AddMessageStep(p)
        \/ Return(p)
    \/ second_passes

SpecSweep == InitSweep /\ [][NextSweep]_vars

(***************************************************************************)
(* The scenario of the sweep and a writer: a short session_ttl; two        *)
(* callers, one may run the sweep while the other appends to the session;  *)
(* their store commands interleave and the seconds pass.                   *)
(***************************************************************************)
InitSweepRace ==
    /\ settings = [SmallSettings EXCEPT !.session_ttl = SmallTTL]
    /\ harness = [Sequential(MaxRaceCalls)
                     EXCEPT !.callers = Procs,
                            !.concurrent = TRUE,
                            !.max_time = 0,
                            !.turns = {<<"human", "Q">>}]
    /\ Conversed("s1", 0)

NextSweepRace ==
    \/ \E p \in Procs, sid \in harness.sessions, turn \in harness.turns :
          add_message_start(p, sid, turn[1], turn[2])
    \/ \E p \in Procs :
        \/ cleanup_expired_sessions_start(p)
        \/ cleanup_keys(p)
        \/ cleanup_exists(p)
        \/ clear_session_delete(p)
        \/ AddMessageStep(p)
        \/ Return(p)
    \/ second_passes

SpecSweepRace == InitSweepRace /\ [][NextSweepRace]_vars

(***************************************************************************)
(* The dialogue scenario: one client sends a few questions on one new      *)
(* session through the SQL agent, one after the other, while the clock     *)
(* goes on.                                                                *)
(***************************************************************************)
InitDialogue ==
    /\ settings = SmallSettings
    /\ harness = Sequential(MaxDialogueCalls)
    /\ Conversed("s1", 0)

NextDialogue ==
    \/ \E p \in Procs, sid \in harness.sessions : arun_start(p, sid)
    \/ \E p \in Procs :
        \/ get_history_smembers(p)
        \/ get_history_lrange(p)
        \/ generate_sql(p)
        \/ llm_ainvoke(p)
        \/ save_history_ai(p)
        \/ AddMessageStep(p)
        \/ Return(p)

SpecDialogue == InitDialogue /\ [][NextDialogue]_vars

(***************************************************************************)
(* The scenario of concurrent queries: two clients send a question on the  *)
(* same new session through the SQL agent, each before the session holds   *)
(* anything; the store commands of the two runs interleave while the clock *)
(* goes on.                                                                *)
(***************************************************************************)
InitQueryRace ==
    /\ settings = SmallSettings
    /\ harness = [Sequential(MaxRaceQueries)
                     EXCEPT !.callers = Procs,
                            !.concurrent = TRUE]
    /\ Conversed("s1", 0)

NextQueryRace ==
    \/ \E p \in Procs, sid \in harness.sessions :
        /\ ~exists(info[sid])
        /\ arun_start(p, sid)
    \/ \E p \in Procs :
        \/ get_history_smembers(p)
        \/ get_history_lrange(p)
        \/ generate_sql(p)
        \/ llm_ainvoke(p)
        \/ save_history_ai(p)
        \/ AddMessageStep(p)
        \/ Return(p)

SpecQueryRace == InitQueryRace /\ [][NextQueryRace]_vars

\* The stores the compaction scenario starts from are stores the history
\* scenario reaches
ConversedReached == ~(Conversed("s1", MaxCalls) /\ settings = SmallSettings)

(***************************************************************************)
(* Properties                                                              *)
(***************************************************************************)
IsSystem(m) == m.role = "system"
IsConversation(m) == m.role # "system"
session_exists(sid) == exists(info[sid])

\* A call of caller p has returned and its result is still in the caller's hands
Returned(p, op) == pc[p] = "done" /\ call[p].op = op

\* Every result get_history(sid) may give on the store as it is
HistoryResults(sid) ==
    {get_history_result(order, messages[sid], None) : order \in Orders(system[sid])}

\* C1: after add_message calls made one after the other, get_history(id)
\* returns every system turn before every human/ai turn, and each of the two
\* groups in the order in which its turns were appended.
C1_HistoryInAppendOrder ==
    \A p \in Procs :
        (Returned(p, "get_history") /\ call[p].include_system /\ IsNone(call[p].limit))
        => call[p].history = SelectSeq(log[call[p].sid], IsSystem)
                             \o SelectSeq(log[call[p].sid], IsConversation)

\* Caller p compacts: it holds a summary and has the persist-summary, inject
\* or trim step before it
Persisting(p) ==
    /\ call[p].op \in {"auto_summarize_and_trim", "summarize_and_trim"}
    /\ ~IsNone(call[p].new_summary)
    /\ pc[p] \notin {"idle", "done"}

\* C2: at most one compaction is in flight per session: no two compactions of
\* one session are both past the summarizer with the persist-summary, inject
\* and trim steps to execute.
C2_OneCompactionInFlight ==
    \A p, q \in Procs :
        (p # q /\ Persisting(p) /\ Persisting(q)) => call[p].sid # call[q].sid

Ids(seq) == {seq[i].id : i \in 1..Len(seq)}

\* C5: every turn a compaction removes from the list was part of the snapshot
\* it handed to the summarizer: a turn appended after the snapshot is never
\* removed by that compaction's trim.
C5_TrimRemovesOnlySnapshot ==
    \A p \in Procs :
        Returned(p, "auto_summarize_and_trim")
        => call[p].removed \subseteq Ids(call[p].history)

\* The store as caller p found it when it made the call
BeforeCall(p) == Val(call[p].before)

\* The last k entries of a list
LastOf(list, k) == [i \in 1..k |-> list[Len(list) - k + i]]

\* The system set holds a turn whose content carries the summary text
SummaryInjected(sid, text) ==
    \E m \in system[sid] : m.role = "system" /\ m.content = SummaryPrefix \o text

\* What C3 says of a successful auto_summarize_and_trim called with
\* keep_recent = k, for the k of KS
CompactedTo(KS) ==
    \A p \in Procs :
        (/\ Returned(p, "auto_summarize_and_trim")
         /\ call[p].ret = Some(TRUE)
         /\ ~IsNone(call[p].keep_arg)
         /\ Val(call[p].keep_arg) \in KS
         /\ Len(BeforeCall(p).messages) >= Val(call[p].keep_arg))
        => /\ Len(messages[call[p].sid]) = Val(call[p].keep_arg)
           /\ messages[call[p].sid]
                = LastOf(BeforeCall(p).messages, Val(call[p].keep_arg))
           /\ SummaryInjected(call[p].sid, Val(call[p].new_summary))

C4_FailureLeavesStateUntouched ==
    \A p \in Procs :
        (Returned(p, "auto_summarize_and_trim") /\ IsNone(call[p].new_summary))
        => /\ call[p].ret = Some(FALSE)
           /\ Snapshot(call[p].sid) = BeforeCall(p)

C4_Witness ==
    \E p \in Procs :
        /\ Returned(p, "auto_summarize_and_trim")
        /\ IsNone(call[p].new_summary)
        /\ Len(call[p].history) > 0
        /\ BeforeCall(p).system # {}
        /\ ~IsNone(BeforeCall(p).summary)

\* C6: after delete_session(id) or clear_session(id) returns on a session that
\* had turns, session_exists(id) is false and get_history(id) returns an empty
\* list.
C6_DeletedSessionIsEmpty ==
    \A p \in Procs :
        (/\ Returned(p, "delete_session") \/ Returned(p, "clear_session")
         /\ Len(BeforeCall(p).messages) + Cardinality(BeforeCall(p).system) > 0)
        => /\ ~session_exists(call[p].sid)
           /\ HistoryResults(call[p].sid) = {<<>>}

C6_Witness ==
    \E p \in Procs :
        /\ Returned(p, "delete_session")
        /\ Len(BeforeCall(p).messages) > 0
        /\ BeforeCall(p).system # {}

\* C7: delete_session(id) / clear_session(id) removes all four keys of the
\* session: once it returns, neither the turn list, the metadata, the system
\* set nor the summary exists.
C7_DeleteRemovesAllKeys ==
    \A p \in Procs :
        (Returned(p, "delete_session") \/ Returned(p, "clear_session"))
        => /\ messages[call[p].sid] = <<>>
           /\ IsNone(info[call[p].sid])
           /\ system[call[p].sid] = {}
           /\ IsNone(summary[call[p].sid])

\* C8: create_session(id) on a session whose metadata exists is a no-op that
\* returns success: message_count and created_at are unchanged.
C8_CreateSessionIdempotent ==
    \A p \in Procs :
        (Returned(p, "create_session") /\ exists(BeforeCall(p).info))
        => /\ call[p].ret = Some(TRUE)
           /\ exists(info[call[p].sid])
           /\ Val(info[call[p].sid]).message_count
                = Val(BeforeCall(p).info).message_count
           /\ Val(info[call[p].sid]).created_at
                = Val(BeforeCall(p).info).created_at

\* The turn of caller p's add_message is in the store
Stored(p) ==
    LET m == Val(call[p].message)
        sid == call[p].sid IN
    IF m.role = "system"
    THEN \E x \in system[sid] : json_dumps(x) = json_dumps(m)
    ELSE Len(messages[sid]) > 0 /\ messages[sid][Len(messages[sid])] = m

C10_SummarizeAtThreshold ==
    \A p \in Procs :
        Returned(p, "should_summarize")
        => (Val(call[p].ret)
            <=> CountIn(log[call[p].sid], {"human", "ai"})
                    >= DefaultMaxHistoryMessages)

C10_Witness ==
    \E p \in Procs :
        /\ Returned(p, "should_summarize")
        /\ call[p].ret = Some(TRUE)
        /\ CountIn(log[call[p].sid], {"human", "ai"}) = DefaultMaxHistoryMessages
        /\ CountIn(log[call[p].sid], {"system"}) > 0

\* The 19th append does not trigger yet
C10_BelowThreshold ==
    \E p \in Procs :
        /\ Returned(p, "should_summarize")
        /\ call[p].ret = Some(FALSE)
        /\ CountIn(log[call[p].sid], {"human", "ai"}) = DefaultMaxHistoryMessages - 1
        /\ CountIn(log[call[p].sid], {"system"}) > 0

\* No call is running
Quiescent == \A p \in Procs : pc[p] \in {"idle", "done"}

\* C11: message_count is incremented exactly once per appended turn: whenever
\* all add_message calls on a session have completed, message_count equals the
\* number of add_message calls made on it, also when the calls of concurrent
\* callers interleave.  (Stated for the sessions no compaction has written to:
\* there the turns handed to the store are the add_message calls made.)
C11_CountMatchesAppends ==
    \A sid \in SessionIds :
        (Quiescent /\ exists(info[sid]) /\ IsNone(summary[sid]))
        => DictGet(Val(info[sid]), "message_count", 0) = Len(log[sid])

\* C12: a session's turn list does not grow without bound on the query path:
\* in every state where no operation is in flight its length is below
\* max_history_messages.
C12_ListStaysBelowThreshold ==
    Quiescent
    => \A sid \in SessionIds : Len(messages[sid]) < settings.max_history_messages

\* The keys of a session that exist
ExistingKeys(sid) == {k \in KeyNames : ttl[sid][k] # NoKey}

\* C13: every write to a session resets the TTL of all four session keys, so
\* the existing keys of a session expire together: when an add_message has
\* returned, it has set the expiry of every key of the session that exists.
C13_WriteRefreshesAllKeys ==
    \A p \in Procs :
        Returned(p, "add_message")
        => ExistingKeys(call[p].sid) \subseteq call[p].refreshed

\* The call of caller p is a compaction that has returned
Compacted(p) ==
    Returned(p, "auto_summarize_and_trim") \/ Returned(p, "summarize_and_trim")

\* list is what is left of old when turns are dropped from its head
IsTailOf(list, old) ==
    /\ Len(list) <= Len(old)
    /\ list = LastOf(old, Len(list))

\* C14: system turns are exempt from trimming: every system turn in the
\* session's system set before a compaction (auto_summarize_and_trim or
\* summarize_and_trim) is still in it afterwards; the compaction adds at most
\* one system turn and only shortens the human/ai list.
C14_SystemTurnsSurviveCompaction ==
    \A p \in Procs :
        Compacted(p)
        => /\ BeforeCall(p).system \subseteq system[call[p].sid]
           /\ Cardinality(system[call[p].sid])
                <= Cardinality(BeforeCall(p).system) + 1
           /\ IsTailOf(messages[call[p].sid], BeforeCall(p).messages)

C14_Witness ==
    \E p \in Procs :
        /\ Compacted(p)
        /\ call[p].ret = Some(TRUE)
        /\ BeforeCall(p).system # {}
        /\ Cardinality(system[call[p].sid]) = Cardinality(BeforeCall(p).system) + 1
        /\ call[p].removed # {}

\* The persist / inject / trim steps had already run with the summary text of
\* caller p's compaction when p made its call
AlreadyCompacted(p) ==
    LET text == Val(call[p].new_summary) IN
    /\ \E m \in BeforeCall(p).system : m.content = SummaryContent(text)
    /\ Len(BeforeCall(p).messages) <= Val(call[p].keep_recent)
    /\ call[p].op = "auto_summarize_and_trim"
          => BeforeCall(p).summary = Some(text)

\* C15: re-running the persist-summary, inject-context and trim steps with
\* the same summary text after they already ran leaves the session in the
\* same state: same stored summary, same turn list, same system directives.
C15_RetryIsIdempotent ==
    \A p \in Procs :
        (Compacted(p) /\ call[p].ret = Some(TRUE) /\ AlreadyCompacted(p))
        => /\ summary[call[p].sid] = BeforeCall(p).summary
           /\ messages[call[p].sid] = BeforeCall(p).messages
           /\ system[call[p].sid] = BeforeCall(p).system

\* C16: after auto_summarize_and_trim or summarize_and_trim succeeds with
\* summary text s, the stored summary of the session is s, a system turn
\* containing s exists, and the turn list holds at most keep_recent turns.
C16_BothCompactionsPersist ==
    \A p \in Procs :
        (Compacted(p) /\ call[p].ret = Some(TRUE))
        => /\ summary[call[p].sid] = call[p].new_summary
           /\ SummaryInjected(call[p].sid, Val(call[p].new_summary))
           /\ Len(messages[call[p].sid]) <= Val(call[p].keep_recent)

\* The smaller of two numbers
Min(a, b) == IF a < b THEN a ELSE b

\* The members of a sequence
Range(seq) == {seq[i] : i \in 1..Len(seq)}

\* C17: get_history(id, limit = n) with n >= 1 returns, besides the system
\* turns, exactly the first min(n, length) entries of the stored turn list,
\* the oldest ones, not the most recent n.
C17_LimitTakesOldest ==
    \A p \in Procs :
        (/\ Returned(p, "get_history")
         /\ ~IsNone(call[p].limit)
         /\ Val(call[p].limit) >= 1)
        => LET list == messages[call[p].sid]
               n == Val(call[p].limit) IN
           /\ SelectSeq(call[p].history, IsConversation)
                = SubSeq(list, 1, Min(n, Len(list)))
           /\ Range(SelectSeq(call[p].history, IsSystem)) = system[call[p].sid]
           /\ Len(SelectSeq(call[p].history, IsSystem))
                = Cardinality(system[call[p].sid])

C17_Witness ==
    \E p \in Procs :
        /\ Returned(p, "get_history")
        /\ call[p].limit = Some(1)
        /\ Len(messages[call[p].sid]) = 2
        /\ system[call[p].sid] # {}
        /\ Len(call[p].history) = 2

\* last_activity of a session that exists
LastActivity(i) == DictGet(Val(i), "last_activity", 0)

\* C18: last_activity of a live session never decreases: no write to the
\* metadata replaces it by an earlier value, over any interleaving of
\* add_message and compaction steps.
C18_LastActivityMonotonic ==
    [][\A sid \in SessionIds :
          (exists(info[sid]) /\ exists(info'[sid]))
          => LastActivity(info'[sid]) >= LastActivity(info[sid])]_vars

\* A call on session sid is running
InFlightOn(sid) ==
    \E p \in Procs : pc[p] \notin {"idle", "done"} /\ call[p].sid = sid

\* C19: sessions are shared-nothing: an operation invoked with session id A
\* leaves every key of every other session B unchanged - a step changes the
\* keys (or their expiry) of a session only when a call on that very session
\* is running.
C19_SessionsSharedNothing ==
    [][\A sid \in SessionIds :
          (Snapshot(sid)' # Snapshot(sid) \/ ttl'[sid] # ttl[sid])
          => InFlightOn(sid)]_vars

C19_Witness ==
    \E p \in Procs :
        /\ Returned(p, "delete_session")
        /\ call[p].sid = "s1"
        /\ Len(BeforeCall(p).messages) > 0
        /\ messages["s2"] # <<>>
        /\ exists(info["s2"])

\* The turns of seq with the given content are in the order of their
\* numbers, each once
InOrder(seq, content) ==
    \A i, j \in 1..Len(seq) :
        (i < j /\ seq[i].content = content /\ seq[j].content = content)
        => seq[i].id < seq[j].id

\* C20: a caller's own sequential appends keep their program order: if a
\* caller completes add_message(t1) before starting add_message(t2), t1
\* precedes t2 in the stored turn list and in the result of get_history, even
\* while another caller appends to the same session or a compaction trims
\* it; no appended turn is stored twice.
C20_OwnAppendsKeepOrder ==
    \A p \in Procs, sid \in SessionIds :
        /\ InOrder(messages[sid], TurnOf(p)[2])
        /\ \A q \in Procs :
              (Returned(q, "get_history") /\ call[q].sid = sid)
              => InOrder(SelectSeq(call[q].history, IsConversation), TurnOf(p)[2])

C20_Witness ==
    \E q \in Procs :
        /\ Returned(q, "get_history")
        /\ \E i, j, k \in 1..Len(call[q].history) :
              /\ i < j /\ j < k
              /\ call[q].history[i].content = "Q"
              /\ call[q].history[j].content = "A"
              /\ call[q].history[k].content = "Q"
              /\ call[q].history[j].id > call[q].history[k].id

(***************************************************************************)
(* C21: a store failure during a session operation reaches the immediate   *)
(* caller as an error: a call in which a store command failed ends by      *)
(* raising, never by returning a value.                                    *)
(***************************************************************************)
C21_StoreFailurePropagates ==
    \A p \in Procs :
        (pc[p] = "done" /\ call[p].failed) => call[p].raised

(***************************************************************************)
(* C22: the metadata of a session id that does not exist - never created   *)
(* or deleted - is not found: get_session_info returns None and the info   *)
(* endpoint answers 404; what the endpoint does return is the metadata the *)
(* store holds for the session.                                            *)
(***************************************************************************)
C22_MissingSessionIsNotFound ==
    \A p \in Procs :
        Returned(p, "get_session_info") =>
            LET c == call[p] IN
            /\ ~session_exists(c.sid) => IsNone(c.session_info) /\ c.status = 404
            /\ c.status # 404 => session_exists(c.sid) /\ c.session_info = info[c.sid]

\* The session was compacted and then deleted: its summary is still stored,
\* its metadata is not found
C22_Witness ==
    \E p \in Procs :
        /\ Returned(p, "get_session_info")
        /\ call[p].status = 404
        /\ ~IsNone(summary[call[p].sid])

(***************************************************************************)
(* C23: list_active_sessions returns exactly the ids of the sessions whose *)
(* metadata key exists with is_active true; a session that holds turns     *)
(* appended since it was last deleted is in the result, a session without  *)
(* metadata is not.                                                        *)
(***************************************************************************)
C23_ListIsTheActiveSessions ==
    \A p \in Procs :
        Returned(p, "list_active_sessions") =>
            /\ ~call[p].raised
            /\ call[p].active =
                  {sid \in SessionIds :
                      /\ session_exists(sid)
                      /\ DictGet(Val(info[sid]), "is_active", FALSE)}
            /\ \A sid \in SessionIds : log[sid] # <<>> => sid \in call[p].active

\* Three calls were made on the two sessions and only the second exists
C23_Witness ==
    \E p \in Procs :
        /\ Returned(p, "list_active_sessions")
        /\ call[p].active = {"s2"}
        /\ log["s2"] # <<>>
        /\ ncalls = MaxSessionCalls

(***************************************************************************)
(* C24: summarize_conversation given no human/ai message (an empty list or *)
(* system messages only) returns success False, the error "No conversation *)
(* messages to summarize" and a None summary without invoking the LLM;     *)
(* with a human/ai message in the list, system messages or not, success    *)
(* depends on the answer of the LLM alone.                                 *)
(***************************************************************************)
C24_NothingToSummarize ==
    \A p \in Procs :
        Returned(p, "summarize_conversation") =>
            LET c == call[p] IN
            IF ConversationMessages(c.history) = <<>>
            THEN /\ c.ret = Some(FALSE)
                 /\ c.agent_error = Some(NoConversationError)
                 /\ IsNone(c.new_summary)
                 /\ ~c.llm_invoked
            ELSE /\ c.llm_invoked
                 /\ c.ret = Some(c.llm = "answers" /\ c.new_summary # Some(""))

\* A list of system messages only was refused
C24_Witness ==
    \E p \in Procs :
        /\ Returned(p, "summarize_conversation")
        /\ call[p].history = <<Message("system"), Message("system")>>
        /\ call[p].ret = Some(FALSE)

(***************************************************************************)
(* C25: when the LLM call raises, summarize_conversation does not raise:   *)
(* it returns success False, a None summary and an error text that         *)
(* contains the message of the LLM failure.                                *)
(***************************************************************************)
C25_LLMFailureIsReturned ==
    \A p \in Procs :
        (pc[p] = "done" /\ call[p].op = "summarize_conversation"
                       /\ call[p].llm = "fails") =>
            LET c == call[p] IN
            /\ ~c.raised
            /\ c.ret = Some(FALSE)
            /\ IsNone(c.new_summary)
            /\ c.llm_error \in LLMErrors
            /\ c.agent_error = Some(GenerateErrorPrefix \o c.llm_error)

C25_Witness ==
    \E p \in Procs :
        /\ Returned(p, "summarize_conversation")
        /\ call[p].llm = "fails"
        /\ call[p].llm_error = "LLM service unavailable"

C27_CompactionEndsBelowThreshold ==
    \A p \in Procs :
        (/\ Returned(p, "auto_summarize_and_trim")
         /\ call[p].ret = Some(TRUE)
         /\ Len(BeforeCall(p).messages) >= settings.max_history_messages) =>
            /\ Val(call[p].keep_recent) < settings.max_history_messages
            /\ ~should_summarize(call[p].sid)

(***************************************************************************)
(* C28: in every reachable state, a session of which a data key is stored  *)
(* (turn list, system set or summary) has its metadata, with is_active     *)
(* true: no data is stored for a session that does not exist.              *)
(***************************************************************************)
C28_DataImpliesMetadata ==
    \A sid \in SessionIds :
        (messages[sid] # <<>> \/ system[sid] # {} \/ ~IsNone(summary[sid])) =>
            /\ session_exists(sid)
            /\ DictGet(Val(info[sid]), "is_active", FALSE)

(***************************************************************************)
(* C29: when cleanup_expired_sessions has completed, no session whose      *)
(* metadata has expired still has a turn list, a system set or a summary,  *)
(* and the count returned is the number of sessions the sweep cleared.     *)
(***************************************************************************)
C29_SweepLeavesNoOrphans ==
    \A p \in Procs :
        Returned(p, "cleanup_expired_sessions") =>
            \A sid \in SessionIds :
                ~session_exists(sid) =>
                    /\ messages[sid] = <<>>
                    /\ system[sid] = {}
                    /\ IsNone(summary[sid])

C31_HistoryIsDeterministic ==
    \A sid \in SessionIds, limit \in Limits :
        Cardinality({get_history_result(order, messages[sid], limit) :
                        order \in Orders(system[sid])}) = 1

(***************************************************************************)
(* C32: a value written through the adapter is read back unchanged: after  *)
(* save_conversation_summary(id, s), get_conversation_summary(id) returns  *)
(* the text s, also when s is itself valid JSON.                           *)
(***************************************************************************)
C32_SummaryReadBackAsWritten ==
    \A p \in Procs :
        (Returned(p, "get_conversation_summary") /\ ~IsNone(summary[call[p].sid])) =>
            call[p].existing_summary =
                Some([type |-> "str", text |-> Val(summary[call[p].sid])])

(***************************************************************************)
(* C33: for every limit n >= 0, get_history with limit n returns at most n *)
(* human/ai turns; with limit 0 it returns none.                           *)
(***************************************************************************)
C33_LimitBoundsTheTurns ==
    \A p \in Procs :
        (Returned(p, "get_history") /\ ~IsNone(call[p].limit)) =>
            Len(SelectSeq(call[p].history, IsConversation)) <= Val(call[p].limit)

(***************************************************************************)
(* C34: compaction is all-or-nothing: whenever auto_summarize_and_trim     *)
(* returns False - summarizer failure or a store call that raised while    *)
(* the summary was persisted, injected or the list trimmed - the stored    *)
(* summary, the system set and the turn list of the session are as they    *)
(* were before the call.                                                   *)
(***************************************************************************)
C34_FailedCompactionChangesNothing ==
    \A p \in Procs :
        (Returned(p, "auto_summarize_and_trim") /\ call[p].ret = Some(FALSE)) =>
            /\ summary[call[p].sid] = BeforeCall(p).summary
            /\ system[call[p].sid] = BeforeCall(p).system
            /\ messages[call[p].sid] = BeforeCall(p).messages

(***************************************************************************)
(* C35: whenever no compaction is in flight, the stored summary of a       *)
(* session equals the summary text carried by the most recently injected   *)
(* "Previous conversation summary" system turn of that session, also after *)
(* two automatic compactions of the session overlapped in time.            *)
(***************************************************************************)
\* The places of the summary turns among the turns handed to the store
SummaryTurns(sid) ==
    {i \in 1..Len(log[sid]) :
        /\ log[sid][i].role = "system"
        /\ \E s \in Summaries : log[sid][i].content = SummaryContent(s)}

LastSummaryTurn(sid) ==
    log[sid][CHOOSE i \in SummaryTurns(sid) : \A j \in SummaryTurns(sid) : j <= i]

CompactionInFlight(sid) ==
    \E p \in Procs :
        /\ call[p].op \in {"auto_summarize_and_trim", "summarize_and_trim"}
        /\ call[p].sid = sid
        /\ pc[p] \notin {"idle", "done"}

C35_SummaryIsTheLastInjected ==
    \A sid \in SessionIds :
        (~CompactionInFlight(sid) /\ SummaryTurns(sid) # {}) =>
            /\ ~IsNone(summary[sid])
            /\ LastSummaryTurn(sid).content = SummaryContent(Val(summary[sid]))

(***************************************************************************)
(* C36: cleanup_expired_sessions never removes data of a live session: the *)
(* session its clear_session wipes has no metadata at that moment; a       *)
(* session that an append re-created between the sweep's existence check   *)
(* and its clear_session keeps its metadata, turn list and system set.     *)
(***************************************************************************)
C36_SweepSparesLiveSessions ==
    \A p \in Procs :
        (call[p].op = "cleanup_expired_sessions" /\ ~IsNone(call[p].before)) =>
            IsNone(BeforeCall(p).info)

(***************************************************************************)
(* C37: a session receives the initial system prompt as a system directive *)
(* at most once: after any number of queries on the session, also two      *)
(* first queries processed concurrently, the system set of the session     *)
(* holds a single initial-prompt directive.                                *)
(***************************************************************************)
InitialPrompts(sid) ==
    {m \in system[sid] : m.role = "system" /\ m.content = InitialSystemPrompt}

C37_InitialPromptOnce ==
    \A sid \in SessionIds : Cardinality(InitialPrompts(sid)) <= 1

(***************************************************************************)
(* C38: summarize_conversation reports success True exactly when a         *)
(* non-empty summary was produced and no error was recorded: a result      *)
(* never has success True with an error or with an empty or None summary;  *)
(* and once a stage of prepare -> generate -> finalize has recorded an     *)
(* error, no later stage calls the LLM or clears or replaces that error.   *)
(***************************************************************************)
NonEmptySummary(c) == ~IsNone(c.new_summary) /\ c.new_summary # Some("")

InSummarizer(p) ==
    pc[p] \in {"generate_summary", "summary_llm.ainvoke", "finalize_summary"}

SuccessIsSummaryWithoutError ==
    \A p \in Procs :
        Returned(p, "summarize_conversation") =>
            (call[p].ret = Some(TRUE)) =
                (NonEmptySummary(call[p]) /\ IsNone(call[p].agent_error))

ErrorIsKept ==
    \A p \in Procs :
        (InSummarizer(p) /\ ~IsNone(call[p].agent_error)) =>
            /\ call'[p].agent_error = call[p].agent_error
            /\ call'[p].llm_invoked = call[p].llm_invoked
            /\ pc'[p] # "summary_llm.ainvoke"

C38_SuccessMeansSummaryAndNoError ==
    [] SuccessIsSummaryWithoutError /\ [][ErrorIsKept]_vars

\* The LLM answered blanks: the result carries the empty summary, the error
\* of the finalize stage and success False
C38_Witness ==
    \E p \in Procs :
        /\ Returned(p, "summarize_conversation")
        /\ call[p].llm = "answers"
        /\ call[p].new_summary = Some("")
        /\ call[p].agent_error = Some(NoSummaryError)
        /\ call[p].ret = Some(FALSE)

(***************************************************************************)
(* C39: the human/ai part of get_history(id) without limit is always the   *)
(* stored turn list in its stored order: the sort by timestamp at read     *)
(* time never reorders human/ai turns relative to the list, also when two  *)
(* callers append concurrently and their turns reach the list in the       *)
(* opposite order of their timestamps.                                     *)
(***************************************************************************)
C39_SortKeepsTheListOrder ==
    \A sid \in SessionIds :
        \A result \in HistoryResults(sid) :
            SelectSeq(result, IsConversation) = messages[sid]

====
